---- MODULE Spec2Model ----
(***************************************************************************)
(* Order book of TCP-Exchange (models/orderBook.go, models/order.go):      *)
(* AddOrder, the ticker-driven MatchOrders pass and StopMatching.          *)
(*                                                                         *)
(* Go slices are modelled as a backing array plus a length, because the    *)
(* match pass keeps slice headers (bids, asks) that alias the arrays held  *)
(* in the maps ob.Bids / ob.Asks while it removes elements in place.       *)
(* Map iteration order is a nondeterministic choice of a visiting order.   *)
(* The Ticker field of an order is never read by the book and is left out. *)
(*                                                                         *)
(* Spec, SpecDeep, SpecPair, SpecStop and SpecTrade take each handler as   *)
(* one step, from Lock to Unlock, over books of different depth and        *)
(* variety, SpecTrade through the server's TRADE command; SpecLock takes   *)
(* the handlers step by step around ob.mu, with two caller threads, which  *)
(* also read the book, and the matching goroutine; SpecServer takes the    *)
(* same steps behind Server.trade and s.mu, under fair scheduling.         *)
(***************************************************************************)
EXTENDS Integers, Sequences, FiniteSets, TLC

\* ---------------------------------------------------------------- bounds
MaxOrders == 3      \* AddOrder calls per book in Spec
MaxDeep   == 4      \* AddOrder calls per book in SpecDeep
MaxPair   == 2      \* AddOrder calls per book in SpecPair
MaxStop   == 3      \* AddOrder calls per book in SpecStop
MaxTrade  == 2      \* TRADE commands per book in SpecTrade
MaxPrice  == 2      \* prices are 1..MaxPrice
MaxSize   == 2      \* submitted sizes are 1..MaxSize
MaxClock  == 0      \* readings of time.Now() are 0..MaxClock in Spec and SpecDeep
MaxCalls  == 2      \* AddOrder calls per book in SpecLock
MaxServe  == 3      \* TRADE commands per book in SpecServer
LockClock == 1      \* readings of time.Now() are 0..LockClock in SpecLock

Prices == 1..MaxPrice
Sizes  == 1..MaxSize

\* ------------------------------------------------------------ order model
\* GetType: "market" -> 1, "limit" -> 2, "gtc" -> 3, "fok" -> 4, other -> 0
GetType(orderType) ==
    CASE orderType = "market" -> 1
      [] orderType = "limit"  -> 2
      [] orderType = "gtc"    -> 3
      [] orderType = "fok"    -> 4
      [] OTHER                -> 0

\* The kinds submitted in Spec; "limit" (2) and an unknown kind (0) set no flag
\* and are no market order, so the book treats them alike.
BookTypes == {"market", "gtc", "fok", "stop"}

\* An Order value as a caller builds it: Id, Timestamp, GTC, FOK are zero values.
Order(price, size, typeName, side) ==
    [Price |-> price, Id |-> 0, Size |-> size, OrderType |-> GetType(typeName),
     Side |-> side, Timestamp |-> 0, GTC |-> FALSE, FOK |-> FALSE]

NoOrder == Order(0, 0, "stop", "")

\* ------------------------------------------------------------------ state
VARIABLES
    Bids,         \* ob.Bids: price -> slice of orders
    Asks,         \* ob.Asks
    nextOrderID,  \* ob.nextOrderID
    now,          \* last reading of time.Now()
    stopClosed,   \* ob.stopChan has been closed
    matcher,      \* the goroutine of startMatching: "select", "lock", "pass", "exit"
    pc,           \* position of each caller thread
    arg,          \* the order a caller thread is submitting
    mu,           \* ob.mu: "free" or the holder
    panicked,     \* an unrecovered runtime panic has ended the process
    fills,        \* the "Fill at price" lines of the match pass, while it is the last operation
    preBids,      \* the book at the start of that pass
    preAsks,
    lastOp,       \* the last book operation that ran
    passes,       \* completed match passes since the last other operation (capped)
    acq           \* AddOrder calls in the order they acquired ob.mu, with the id given

bookVars == <<Bids, Asks, nextOrderID, now, fills, preBids, preAsks, lastOp, passes>>
vars == <<Bids, Asks, nextOrderID, now, stopClosed, matcher, pc, arg, mu, panicked,
          fills, preBids, preAsks, lastOp, passes, acq>>

Min(a, b) == IF a < b THEN a ELSE b

EmptyMap == [p \in {} |-> <<>>]

\* delete(m, p)
MapDelete(m, p) == [q \in DOMAIN m \ {p} |-> m[q]]

\* m[p] = v
MapPut(m, p, v) == [q \in DOMAIN m \cup {p} |-> IF q = p THEN v ELSE m[q]]

\* m[p] of a Go map: the zero value (nil slice) for a missing key
MapGet(m, p) == IF p \in DOMAIN m THEN m[p] ELSE <<>>


\* ------------------------------------------------------------- AddOrder
Swap(s, x, y) == [s EXCEPT ![x] = s[y], ![y] = s[x]]

\* sort.Slice on fewer than 12 elements is the insertion sort of package sort:
\*   for i := 1; i < n; i++ { for j := i; j > 0 && less(j, j-1); j-- { swap(j, j-1) } }
\* with less(i, j) = s[i].Timestamp.Before(s[j].Timestamp). Levels here hold
\* at most MaxDeep orders.
\* The inner loop with a less that also holds for equal timestamps.
RECURSIVE InsertInner_NonStrict(_, _)
InsertInner_NonStrict(s, j) ==
    IF j > 1 /\ s[j].Timestamp <= s[j-1].Timestamp
    THEN InsertInner_NonStrict(Swap(s, j, j-1), j-1)
    ELSE s

RECURSIVE InsertInner(_, _)
InsertInner(s, j) ==
    IF j > 1 /\ s[j].Timestamp < s[j-1].Timestamp
    THEN InsertInner(Swap(s, j, j-1), j-1)
    ELSE s

RECURSIVE InsertionSort(_, _)
InsertionSort(s, i) ==
    IF i > Len(s) THEN s ELSE InsertionSort(InsertInner(s, i), i+1)

SortByTimestamp(s) == InsertionSort(s, 2)

\* The readings time.Now() can return after the reading now: the clock is
\* monotonic and may not have advanced between two calls.
TimeNow(clockMax) == {now, Min(now + 1, clockMax)}

\* order.Id = ob.nextOrderID; order.Timestamp = time.Now()
Stamp(order, id, ts) == [order EXCEPT !.Id = id, !.Timestamp = ts]

\* if order.OrderType == 3 { GTC = true } else if order.OrderType == 4 { FOK = true }
SetFlags(order) ==
    IF order.OrderType = 3 THEN [order EXCEPT !.GTC = TRUE]
    ELSE IF order.OrderType = 4 THEN [order EXCEPT !.FOK = TRUE]
    ELSE order

\* m[order.Price] = append(m[order.Price], order); sort.Slice(m[order.Price], byTimestamp)
InsertOrder(m, order) ==
    MapPut(m, order.Price, SortByTimestamp(Append(MapGet(m, order.Price), order)))

\* The insertion half of AddOrder: flags, then the side's map.
AddToBook(order) ==
    /\ Bids' = IF order.Side = "buy" THEN InsertOrder(Bids, SetFlags(order)) ELSE Bids
    /\ Asks' = IF order.Side = "sell" THEN InsertOrder(Asks, SetFlags(order)) ELSE Asks
    /\ fills' = <<>>
    /\ preBids' = EmptyMap
    /\ preAsks' = EmptyMap
    /\ lastOp' = "add"
    /\ passes' = 0

\* AssignId without ob.nextOrderID++
AssignId_NoIncrement(ts) ==
    /\ now' = ts
    /\ UNCHANGED nextOrderID

\* The id half of AddOrder: id, timestamp, counter.
AssignId(ts) ==
    /\ now' = ts
    /\ nextOrderID' = nextOrderID + 1


\* ----------------------------------------------------------- MatchOrders
\* append(s[:k], s[k+1:]...) on a slice of length n over the array arr (k is
\* the Go index): the elements after k move one place down inside arr, the
\* last place keeps its old value, and the result has length n - 1.
RemoveAt(arr, n, k) ==
    [x \in 1..Len(arr) |-> IF x >= k + 1 /\ x <= n - 1 THEN arr[x + 1] ELSE arr[x]]

\* s[k+1:] of a slice of length n is in range
CanRemoveAt(n, k) == k >= 0 /\ k + 1 <= n

\* if bid.OrderType == 1 || ask.OrderType == 1
Eligible(bid, ask) == bid.OrderType = 1 \/ ask.OrderType = 1

\* if bid.FOK || ask.FOK { if vol != bid.Size && vol != ask.Size {
FOKKill(bid, ask, vol) == (bid.FOK \/ ask.FOK) /\ vol # bid.Size /\ vol # ask.Size

\* One line "Fill at price: askPrice, size vol, with order id bid.Id and ask.Id"
Fill(askPrice, vol, bid, ask) ==
    [price |-> askPrice, size |-> vol, bid |-> bid.Id, ask |-> ask.Id]

\* The state of a pass. bArr/aArr: the backing array of each level; bLen/aLen:
\* the length of the slice the map holds for each key present; lb/la: the
\* lengths of the local slices bids/asks, which share the level's array;
\* i, j, bid: the loop variables; brk: the inner loop was left by break.
PassStart(B, A) ==
    [bArr |-> B, bLen |-> [p \in DOMAIN B |-> Len(B[p])],
     aArr |-> A, aLen |-> [p \in DOMAIN A |-> Len(A[p])],
     lb |-> 0, la |-> 0, i |-> 0, j |-> 0, bid |-> NoOrder, brk |-> FALSE,
     fills |-> <<>>, matches |-> FALSE, panic |-> FALSE]

Panic(s) == [s EXCEPT !.panic = TRUE]

\* CleanAsk without the delete of the emptied level
CleanAsk_KeepLevel(s, ap) ==
    LET n == IF ap \in DOMAIN s.aLen THEN s.aLen[ap] ELSE 0 IN
    IF ~CanRemoveAt(n, s.j) THEN Panic(s)
    ELSE [s EXCEPT !.aArr[ap] = RemoveAt(@, n, s.j),
                   !.aLen = MapPut(s.aLen, ap, n - 1),
                   !.j = @ - 1]

\* lines 102-109: if ask.Size == 0 { ob.Asks[askPrice] = append(...[:j], ...[j+1:]...); j--; delete if empty }
CleanAsk(s, ap) ==
    LET n == IF ap \in DOMAIN s.aLen THEN s.aLen[ap] ELSE 0 IN
    IF ~CanRemoveAt(n, s.j) THEN Panic(s)
    ELSE [s EXCEPT !.aArr[ap] = RemoveAt(@, n, s.j),
                   !.aLen = IF n - 1 = 0 THEN MapDelete(s.aLen, ap) ELSE MapPut(s.aLen, ap, n - 1),
                   !.j = @ - 1]

\* CleanBid without the delete of the emptied level
CleanBid_KeepLevel(s, bp) ==
    IF ~CanRemoveAt(s.lb, s.i) THEN Panic(s)
    ELSE [s EXCEPT !.bArr[bp] = RemoveAt(@, s.lb, s.i),
                   !.lb = @ - 1,
                   !.bLen = MapPut(s.bLen, bp, s.lb - 1),
                   !.i = @ - 1,
                   !.brk = TRUE]

\* lines 111-120: if bid.Size == 0 { bids = append(bids[:i], bids[i+1:]...); ob.Bids[bidPrice] = bids; i--; delete if empty; break }
CleanBid(s, bp) ==
    IF ~CanRemoveAt(s.lb, s.i) THEN Panic(s)
    ELSE [s EXCEPT !.bArr[bp] = RemoveAt(@, s.lb, s.i),
                   !.lb = @ - 1,
                   !.bLen = IF s.lb - 1 = 0 THEN MapDelete(s.bLen, bp) ELSE MapPut(s.bLen, bp, s.lb - 1),
                   !.i = @ - 1,
                   !.brk = TRUE]

\* lines 91-121: the fill of vol between the local copies bid and ask
ExecFill(s, bp, ap, ask, vol) ==
    LET bid1 == [s.bid EXCEPT !.Size = @ - vol]
        ask1 == [ask EXCEPT !.Size = @ - vol]
        s1   == [s EXCEPT !.matches = TRUE, !.bid = bid1,
                          !.fills = Append(@, Fill(ap, vol, s.bid, ask))]
        s2   == IF ask1.Size = 0 THEN CleanAsk(s1, ap) ELSE s1
    IN  IF s2.panic THEN s2
        ELSE IF bid1.Size = 0 THEN CleanBid(s2, bp) ELSE s2

\* lines 80-87: the FOK order is cut out of the local slice only, then continue
KillFOK(s, bp, ap) ==
    IF s.bid.FOK
    THEN IF ~CanRemoveAt(s.lb, s.i) THEN Panic(s)
         ELSE [s EXCEPT !.bArr[bp] = RemoveAt(@, s.lb, s.i), !.lb = @ - 1, !.i = @ - 1]
    ELSE IF ~CanRemoveAt(s.la, s.j) THEN Panic(s)
         ELSE [s EXCEPT !.aArr[ap] = RemoveAt(@, s.la, s.j), !.la = @ - 1, !.j = @ - 1]

\* lines 70-122: one iteration of the loop over j; ask := asks[i]
JBody(s, bp, ap) ==
    IF ~(s.i >= 0 /\ s.i < s.la) THEN Panic(s)
    ELSE LET ask == s.aArr[ap][s.i + 1]
             vol == Min(s.bid.Size, ask.Size)
         IN  IF ~Eligible(s.bid, ask) THEN s
             ELSE IF FOKKill(s.bid, ask, vol) THEN KillFOK(s, bp, ap)
             ELSE IF vol > 0 THEN ExecFill(s, bp, ap, ask, vol)
             ELSE s

\* line 69: for j := 0; j < len(asks); j++
RECURSIVE JLoop(_, _, _)
JLoop(s, bp, ap) ==
    IF s.panic \/ s.brk \/ ~(s.j < s.la) THEN s
    ELSE LET s1 == JBody(s, bp, ap)
         IN  JLoop(IF s1.panic \/ s1.brk THEN s1 ELSE [s1 EXCEPT !.j = @ + 1], bp, ap)

\* line 66: for i := 0; i < len(bids); i++ { bid := bids[i]; ...
RECURSIVE ILoop(_, _, _)
ILoop(s, bp, ap) ==
    IF s.panic \/ ~(s.i < s.lb) THEN s
    ELSE IF s.i < 0 THEN Panic(s)
    ELSE LET s1 == JLoop([s EXCEPT !.bid = s.bArr[bp][s.i + 1], !.j = 0, !.brk = FALSE], bp, ap)
         IN  ILoop(IF s1.panic THEN s1 ELSE [s1 EXCEPT !.i = @ + 1], bp, ap)

\* line 63: for askPrice, asks := range ob.Asks, visiting the keys in the order
\* ao; a key deleted before it is reached is not produced.
RECURSIVE AskRange(_, _, _, _)
AskRange(s, bp, ao, k) ==
    IF s.panic \/ k > Len(ao) THEN s
    ELSE LET ap == ao[k] IN
         IF ap \notin DOMAIN s.aLen \/ ~(bp >= ap) THEN AskRange(s, bp, ao, k + 1)
         ELSE AskRange(ILoop([s EXCEPT !.la = s.aLen[ap], !.i = 0], bp, ap), bp, ao, k + 1)

\* line 61: for bidPrice, bids := range ob.Bids, visiting the keys in the order
\* bo; aos[bp] is the order in which the inner range visits the ask keys.
RECURSIVE BidRange(_, _, _, _)
BidRange(s, bo, aos, k) ==
    IF s.panic \/ k > Len(bo) THEN s
    ELSE LET bp == bo[k] IN
         IF bp \notin DOMAIN s.bLen THEN BidRange(s, bo, aos, k + 1)
         ELSE BidRange(AskRange([s EXCEPT !.lb = s.bLen[bp]], bp, aos[bp], 1), bo, aos, k + 1)

\* The slices the maps hold: the first bLen[p] places of each array.
PassBook(arr, len) == [p \in DOMAIN len |-> SubSeq(arr[p], 1, len[p])]

\* All visiting orders of a set of keys.
Perms(S) == {f \in [1..Cardinality(S) -> S] : \A x, y \in 1..Cardinality(S) : x # y => f[x] # f[y]}

\* MatchOrders between Lock and Unlock, for one choice of the iteration orders.
RunPass(B, A, bo, aos) ==
    IF DOMAIN B = {} \/ DOMAIN A = {} THEN PassStart(B, A)
    ELSE BidRange(PassStart(B, A), bo, aos, 1)

\* Quantity the fills fs add to order id k.
RECURSIVE FilledBy(_, _)
FilledBy(fs, k) ==
    IF fs = <<>> THEN 0
    ELSE (IF Head(fs).bid = k \/ Head(fs).ask = k THEN Head(fs).size ELSE 0) + FilledBy(Tail(fs), k)

\* The effect of one MatchOrders call on the book; a panic ends the process.
MatchPass ==
    \E bo \in Perms(DOMAIN Bids) : \E aos \in [DOMAIN Bids -> Perms(DOMAIN Asks)] :
        LET s == RunPass(Bids, Asks, bo, aos) IN
        /\ Bids' = PassBook(s.bArr, s.bLen)
        /\ Asks' = PassBook(s.aArr, s.aLen)
        /\ fills' = s.fills
        /\ preBids' = Bids
        /\ preAsks' = Asks
        /\ lastOp' = "match"
        /\ passes' = IF s.panic THEN 0 ELSE Min(passes + 1, 2)
        /\ panicked' = s.panic
        /\ UNCHANGED <<nextOrderID, now>>

\* ---------------------------------------------------------- StopMatching
\* newBids that also keeps the market orders of a level
RECURSIVE KeepGTC_KeepMarket(_)
KeepGTC_KeepMarket(s) ==
    IF s = <<>> THEN <<>>
    ELSE IF Head(s).GTC \/ Head(s).OrderType = 1
         THEN <<Head(s)>> \o KeepGTC_KeepMarket(Tail(s))
         ELSE KeepGTC_KeepMarket(Tail(s))

\* newBids: the GTC orders of a level, in order
RECURSIVE KeepGTC(_)
KeepGTC(s) ==
    IF s = <<>> THEN <<>>
    ELSE IF Head(s).GTC THEN <<Head(s)>> \o KeepGTC(Tail(s)) ELSE KeepGTC(Tail(s))

\* a drain that clears the side
Drain_Clear(m) == EmptyMap

\* lines 141-153 (and 156-168): each level keeps its GTC orders, or is deleted
Drain(m) ==
    [p \in {q \in DOMAIN m : KeepGTC(m[q]) # <<>>} |-> KeepGTC(m[p])]

\* StopMatching between Lock and Unlock.
StopDrain ==
    /\ Bids' = Drain(Bids)
    /\ Asks' = Drain(Asks)
    /\ fills' = <<>>
    /\ preBids' = EmptyMap
    /\ preAsks' = EmptyMap
    /\ lastOp' = "stop"
    /\ passes' = 0
    /\ UNCHANGED <<nextOrderID, now>>


\* ------------------------------------------------------------------ Init
Threads == {"t1", "t2"}

Init ==
    /\ Bids = EmptyMap
    /\ Asks = EmptyMap
    /\ nextOrderID = 0
    /\ now = 0
    /\ stopClosed = FALSE
    /\ matcher = "select"
    /\ pc = [t \in Threads |-> "idle"]
    /\ arg = [t \in Threads |-> NoOrder]
    /\ mu = "free"
    /\ panicked = FALSE
    /\ fills = <<>>
    /\ preBids = EmptyMap
    /\ preAsks = EmptyMap
    /\ lastOp = "init"
    /\ passes = 0
    /\ acq = <<>>

lockVars == <<pc, arg, mu, acq>>

\* ------------------------------------------- whole handlers (Spec, SpecDeep)
\* The orders callers submit: every price, size, kind and side, and one order
\* whose side is neither "buy" nor "sell".
Inputs ==
    {Order(p, z, ty, sd) : p \in Prices, z \in Sizes, ty \in BookTypes, sd \in {"buy", "sell"}}
        \cup {Order(1, 1, "market", "hold")}

\* The orders of the deep book: one more order, fewer kinds.
DeepInputs ==
    {Order(p, z, ty, sd) : p \in Prices, z \in Sizes, ty \in {"market", "limit"}, sd \in {"buy", "sell"}}

\* AddOrder, from Lock to Unlock.
AddOrderCall(order, max) ==
    /\ ~panicked
    /\ nextOrderID < max
    /\ \E ts \in TimeNow(MaxClock) :
          /\ AssignId(ts)
          /\ AddToBook(Stamp(order, nextOrderID, ts))
          /\ UNCHANGED panicked
    /\ UNCHANGED <<stopClosed, matcher, lockVars>>

AddOrder == \E order \in Inputs : AddOrderCall(order, MaxOrders)

AddOrderDeep == \E order \in DeepInputs : AddOrderCall(order, MaxDeep)

\* The orders of the two-order book: market and FOK orders.
PairInputs ==
    {Order(p, z, ty, sd) : p \in Prices, z \in Sizes, ty \in {"market", "fok"}, sd \in {"buy", "sell"}}

AddOrderPair == \E order \in PairInputs : AddOrderCall(order, MaxPair)

\* case <-ticker.C: ob.MatchOrders()
MatchOrders ==
    /\ ~panicked
    /\ matcher = "select"
    /\ MatchPass
    /\ UNCHANGED <<stopClosed, matcher, lockVars>>

\* case <-ob.stopChan: ticker.Stop(); return
SchedulerExit ==
    /\ ~panicked
    /\ matcher = "select"
    /\ stopClosed
    /\ matcher' = "exit"
    /\ UNCHANGED <<bookVars, stopClosed, panicked, lockVars>>

\* close(ob.stopChan) panics on a closed channel
CloseStopChan ==
    IF stopClosed
    THEN /\ panicked' = TRUE
         /\ UNCHANGED stopClosed
    ELSE /\ stopClosed' = TRUE
         /\ UNCHANGED panicked

\* The book when close(ob.stopChan) has panicked: StopMatching got no further.
ClosePanicked ==
    /\ lastOp' = "close"
    /\ UNCHANGED <<Bids, Asks, nextOrderID, now, fills, preBids, preAsks, passes>>

\* StopMatching: close(ob.stopChan), then the drain under the lock.
StopMatching ==
    /\ ~panicked
    /\ CloseStopChan
    /\ IF stopClosed THEN ClosePanicked ELSE StopDrain
    /\ UNCHANGED <<matcher, lockVars>>

Next == AddOrder \/ MatchOrders \/ SchedulerExit \/ StopMatching

Spec == Init /\ [][Next]_vars

\* The deep book, while it runs: submissions and passes, no shutdown.
NextDeep == AddOrderDeep \/ MatchOrders

SpecDeep == Init /\ [][NextDeep]_vars

\* The two-order book, while it runs.
NextPair == AddOrderPair \/ MatchOrders

SpecPair == Init /\ [][NextPair]_vars

\* The orders of the book that is shut down: GTC orders at every price, and
\* at price 1 the kinds StopMatching drops (market, FOK, unknown).
StopInputs ==
    {Order(p, 1, "gtc", sd) : p \in Prices, sd \in {"buy", "sell"}}
        \cup {Order(1, 1, ty, sd) : ty \in {"market", "fok", "stop"}, sd \in {"buy", "sell"}}

\* AddOrder, from Lock to Unlock, in a book whose submissions all fall within
\* one reading of the clock.
AddOrderStop ==
    \E order \in StopInputs :
        /\ ~panicked
        /\ nextOrderID < MaxStop
        /\ AssignId(now)
        /\ AddToBook(Stamp(order, nextOrderID, now))
        /\ UNCHANGED <<panicked, stopClosed, matcher, lockVars>>

\* The book that is shut down: submissions, passes, StopMatching.
NextStop == AddOrderStop \/ MatchOrders \/ SchedulerExit \/ StopMatching

SpecStop == Init /\ [][NextStop]_vars

\* --------------------------------------------- the TRADE command (SpecTrade)
\* strconv.ParseFloat(s, 64) with the error dropped: the number a numeral
\* stands for, and 0 for a string that is no number.
ParseFloat(s) ==
    CASE s = "1"  -> 1
      [] s = "2"  -> 2
      [] s = "0"  -> 0
      [] s = "-1" -> -1
      [] OTHER    -> 0

\* strconv.Atoi(s) with the error dropped
Atoi(s) ==
    CASE s = "1"  -> 1
      [] s = "2"  -> 2
      [] s = "0"  -> 0
      [] s = "-1" -> -1
      [] OTHER    -> 0

\* orderFromParts: parts is the message split at spaces, parts[k] of the Go
\* code being parts[k + 1] here. The Timestamp it sets is overwritten by
\* AddOrder.
orderFromParts(parts) ==
    LET side      == parts[3]
        orderType == parts[4]
        price     == ParseFloat(parts[5])
        size      == Atoi(parts[6])
    IN  Order(price, size, orderType, side)

\* The messages "TRADE <exchange> <side> <type> <price> <size> <ticker>" a
\* client sends: well-formed ones, and ones with a side, a kind, a price or
\* a size that is not valid.
TradeMessages ==
    {<<"TRADE", "NYSE", side, ty, price, size, "QQQ">> :
        side \in {"buy", "sell", "hold"}, ty \in {"market", "limit", "bogus"},
        price \in {"1", "-1", "abc"}, size \in {"1", "0", "ten"}}

\* handleClient on a TRADE message of 7 parts from a client whose exchange
\* exists: orderFromParts, then Server.trade calls exchange.AddOrder(*order).
Trade == \E parts \in TradeMessages : AddOrderCall(orderFromParts(parts), MaxTrade)

\* The book of one exchange, fed by TRADE commands.
NextTrade == Trade \/ MatchOrders

SpecTrade == Init /\ [][NextTrade]_vars


\* ------------------------------------------ lock-level steps (SpecLock)
\* Caller threads and the matching goroutine take ob.mu step by step.
LockInputs ==
    {Order(1, 1, ty, sd) : ty \in {"market", "limit"}, sd \in {"buy", "sell"}}

\* a Lock that does not wait
CanLock_NoWait == TRUE

\* ob.mu.Lock() returns only when the mutex is free
CanLock == mu = "free"

InAdd(t) == pc[t] \in {"add_lock", "add_id", "add_insert"}

\* a thread calls ob.AddOrder(order) and reaches ob.mu.Lock()
AddCall(t) ==
    /\ ~panicked
    /\ pc[t] = "idle"
    /\ nextOrderID + Cardinality({u \in Threads : InAdd(u)}) < MaxCalls
    /\ \E order \in LockInputs : arg' = [arg EXCEPT ![t] = order]
    /\ pc' = [pc EXCEPT ![t] = "add_lock"]
    /\ UNCHANGED <<bookVars, stopClosed, matcher, mu, panicked, acq>>

\* line 173: ob.mu.Lock()
AddLock(t) ==
    /\ ~panicked
    /\ pc[t] = "add_lock"
    /\ CanLock
    /\ mu' = t
    /\ pc' = [pc EXCEPT ![t] = "add_id"]
    /\ acq' = Append(acq, [t |-> t, id |-> -1])
    /\ UNCHANGED <<bookVars, stopClosed, matcher, arg, panicked>>

\* The place in acq of the call thread t has in progress.
AcqOf(t) == CHOOSE x \in 1..Len(acq) : acq[x].t = t /\ acq[x].id = -1

\* lines 177-179: order.Id = ob.nextOrderID; order.Timestamp = time.Now(); ob.nextOrderID++
AddAssignId(t) ==
    /\ ~panicked
    /\ pc[t] = "add_id"
    /\ \E ts \in TimeNow(LockClock) :
          /\ AssignId(ts)
          /\ arg' = [arg EXCEPT ![t] = Stamp(@, nextOrderID, ts)]
    /\ acq' = [acq EXCEPT ![AcqOf(t)].id = nextOrderID]
    /\ pc' = [pc EXCEPT ![t] = "add_insert"]
    /\ UNCHANGED <<Bids, Asks, fills, preBids, preAsks, lastOp, passes,
                   stopClosed, matcher, mu, panicked>>

\* lines 181-199 and the deferred ob.mu.Unlock()
AddInsert(t) ==
    /\ ~panicked
    /\ pc[t] = "add_insert"
    /\ AddToBook(arg[t])
    /\ mu' = "free"
    /\ pc' = [pc EXCEPT ![t] = "idle"]
    /\ arg' = [arg EXCEPT ![t] = NoOrder]
    /\ UNCHANGED <<nextOrderID, now, stopClosed, matcher, panicked, acq>>

\* line 135: a thread calls ob.StopMatching(): close(ob.stopChan)
StopCall(t) ==
    /\ ~panicked
    /\ pc[t] = "idle"
    /\ CloseStopChan
    /\ IF stopClosed THEN ClosePanicked ELSE UNCHANGED bookVars
    /\ pc' = [pc EXCEPT ![t] = IF stopClosed THEN "idle" ELSE "stop_lock"]
    /\ UNCHANGED <<matcher, arg, mu, acq>>

\* line 137: ob.mu.Lock()
StopLock(t) ==
    /\ ~panicked
    /\ pc[t] = "stop_lock"
    /\ CanLock
    /\ mu' = t
    /\ pc' = [pc EXCEPT ![t] = "stop_drain"]
    /\ UNCHANGED <<bookVars, stopClosed, matcher, arg, panicked, acq>>

\* lines 140-168 and the deferred ob.mu.Unlock()
StopBody(t) ==
    /\ ~panicked
    /\ pc[t] = "stop_drain"
    /\ StopDrain
    /\ mu' = "free"
    /\ pc' = [pc EXCEPT ![t] = "idle"]
    /\ UNCHANGED <<stopClosed, matcher, arg, panicked, acq>>

\* line 39: the select takes case <-ticker.C and calls ob.MatchOrders()
TickSelect ==
    /\ ~panicked
    /\ matcher = "select"
    /\ matcher' = "lock"
    /\ UNCHANGED <<bookVars, stopClosed, lockVars, panicked>>

\* line 51: ob.mu.Lock()
MatchLock ==
    /\ ~panicked
    /\ matcher = "lock"
    /\ CanLock
    /\ mu' = "m"
    /\ matcher' = "pass"
    /\ UNCHANGED <<bookVars, stopClosed, pc, arg, acq, panicked>>

\* lines 54-130 and the deferred ob.mu.Unlock()
MatchBody ==
    /\ ~panicked
    /\ matcher = "pass"
    /\ MatchPass
    /\ mu' = "free"
    /\ matcher' = "select"
    /\ UNCHANGED <<stopClosed, pc, arg, acq>>

\* A holder of ob.mu is writing the maps ob.Bids and ob.Asks.
Writing == matcher = "pass" \/ \E u \in Threads : pc[u] \in {"add_insert", "stop_drain"}

\* fmt.Printf("%v", ob.Bids) iterates the map without ob.mu. Beside a writer
\* it is a data race: the Go runtime either lets the read go on or ends the
\* process with "concurrent map iteration and map write".
ReadFatal == IF Writing THEN BOOLEAN ELSE {FALSE}

\* main.go line 44: fmt.Printf("Bids: %v\n", ob.Bids)
ReadBids(t) ==
    /\ ~panicked
    /\ pc[t] = "idle"
    /\ \E fatal \in ReadFatal : panicked' = fatal
    /\ pc' = [pc EXCEPT ![t] = "read_asks"]
    /\ UNCHANGED <<bookVars, stopClosed, matcher, arg, mu, acq>>

\* main.go line 45: fmt.Printf("Asks: %v\n", ob.Asks)
ReadAsks(t) ==
    /\ ~panicked
    /\ pc[t] = "read_asks"
    /\ \E fatal \in ReadFatal : panicked' = fatal
    /\ pc' = [pc EXCEPT ![t] = "idle"]
    /\ UNCHANGED <<bookVars, stopClosed, matcher, arg, mu, acq>>

NextLock ==
    \/ \E t \in Threads : AddCall(t) \/ AddLock(t) \/ AddAssignId(t) \/ AddInsert(t)
    \/ \E t \in Threads : StopCall(t) \/ StopLock(t) \/ StopBody(t)
    \/ \E t \in Threads : ReadBids(t) \/ ReadAsks(t)
    \/ TickSelect \/ MatchLock \/ MatchBody \/ SchedulerExit

SpecLock == Init /\ [][NextLock]_vars


\* ----------------------------------- the server's trade path (SpecServer)
\* Every submission comes through Server.trade, which holds s.mu from its
\* first line to its return and calls exchange.AddOrder in between: the
\* thread that is inside AddOrder is the holder of s.mu.
ServeInputs == {Order(1, 1, "limit", "sell"), Order(1, 2, "market", "buy")}

\* The threads inside Server.trade, waiting for s.mu or holding it.
InTrade == {u \in Threads : pc[u] = "trade_lock" \/ InAdd(u)}

\* s.mu.Lock() returns only when no other handler holds s.mu
CanLockServer == \A u \in Threads : ~InAdd(u)

\* handleClient reads a TRADE message and calls s.trade, which reaches s.mu.Lock()
TradeCall(t) ==
    /\ ~panicked
    /\ pc[t] = "idle"
    /\ nextOrderID + Cardinality(InTrade) < MaxServe
    /\ \E order \in ServeInputs : arg' = [arg EXCEPT ![t] = order]
    /\ pc' = [pc EXCEPT ![t] = "trade_lock"]
    /\ UNCHANGED <<bookVars, stopClosed, matcher, mu, panicked, acq>>

\* part_000 lines 224-232: s.mu.Lock(); the exchange exists; exchange.AddOrder(*order)
\* is called and reaches ob.mu.Lock()
TradeLock(t) ==
    /\ ~panicked
    /\ pc[t] = "trade_lock"
    /\ CanLockServer
    /\ pc' = [pc EXCEPT ![t] = "add_lock"]
    /\ UNCHANGED <<bookVars, stopClosed, matcher, arg, mu, panicked, acq>>

\* The server never calls StopMatching on the book of an exchange: the book
\* takes submissions and passes until the process ends.
NextServer ==
    \/ \E t \in Threads : TradeCall(t) \/ TradeLock(t)
    \/ \E t \in Threads : AddLock(t) \/ AddAssignId(t) \/ AddInsert(t)
    \/ TickSelect \/ MatchLock \/ MatchBody

\* The scheduler runs every goroutine that can take a step, and a goroutine
\* waiting in Lock gets the mutex in the end (sync.Mutex hands the mutex to a
\* waiter that has waited for more than 1 ms). Calls come when clients send
\* them: no fairness for TradeCall. MatchBody is enabled exactly while the
\* goroutine is inside the pass and always leaves it, so weak fairness of
\* MatchBody is stated as: the goroutine is again and again outside the pass.
FairServer ==
    /\ \A t \in Threads : SF_vars(TradeLock(t)) /\ SF_vars(AddLock(t))
    /\ \A t \in Threads : WF_vars(AddAssignId(t)) /\ WF_vars(AddInsert(t))
    /\ SF_vars(MatchLock) /\ WF_vars(TickSelect)
    /\ []<>(panicked \/ matcher # "pass")

SpecServer == Init /\ [][NextServer]_vars /\ FairServer


\* ---------------------------------------------------------------- claims
\* The orders resting in one side of the book.
Orders(m) == UNION {{m[p][x] : x \in 1..Len(m[p])} : p \in DOMAIN m}

RestingIds(m) == {o.Id : o \in Orders(m)}

\* The side m holds one level, p, with one order, of size n and kind ty.
OnlyOrder(m, p, n, ty) ==
    /\ DOMAIN m = {p}
    /\ Len(m[p]) = 1
    /\ m[p][1].Size = n
    /\ m[p][1].OrderType = ty

\* C1: a pass over a book that holds only a market buy (P, N) and a market
\* sell (P, N) ends without a panic, leaves Bids and Asks empty and prints
\* exactly one fill, of quantity N at price P.
C1_MarketCross ==
    \A p \in Prices, n \in Sizes :
        (lastOp = "match" /\ OnlyOrder(preBids, p, n, 1) /\ OnlyOrder(preAsks, p, n, 1))
            => /\ ~panicked
               /\ Bids = EmptyMap
               /\ Asks = EmptyMap
               /\ Len(fills) = 1
               /\ fills[1].size = n
               /\ fills[1].price = p

C1_Witness ==
    \E p \in Prices :
        /\ lastOp = "match"
        /\ OnlyOrder(preBids, p, MaxSize, 1)
        /\ OnlyOrder(preAsks, p, MaxSize, 1)
        /\ Bids = EmptyMap
        /\ Asks = EmptyMap
        /\ Len(fills) = 1

\* C2: price-time priority. With two bids A (earlier) and B (later) resting at
\* one price and one crossing ask of A's size, A and the ask being market
\* orders, a pass fills A against the ask, prints no fill for B, and B is
\* still resting after the pass.
C2_PriceTime ==
    \A p \in Prices, q \in Prices :
        (/\ lastOp = "match"
         /\ DOMAIN preBids = {p} /\ Len(preBids[p]) = 2
         /\ DOMAIN preAsks = {q} /\ Len(preAsks[q]) = 1
         /\ q <= p
         /\ preBids[p][1].OrderType = 1
         /\ preAsks[q][1].OrderType = 1
         /\ preAsks[q][1].Size = preBids[p][1].Size)
            => /\ \E k \in 1..Len(fills) :
                      /\ fills[k].bid = preBids[p][1].Id
                      /\ fills[k].ask = preAsks[q][1].Id
                      /\ fills[k].size = preBids[p][1].Size
               /\ \A k \in 1..Len(fills) : fills[k].bid # preBids[p][2].Id
               /\ preBids[p][2] \in Orders(Bids)

\* C3: FOK atomicity. Every fill a pass prints for an FOK order is of the
\* order's whole size, and an FOK order with a fill is not resting after the
\* pass: no partial fill, no resting FOK order with part of its size filled.
C3_FOKAtomic ==
    lastOp = "match" =>
        /\ \A o \in Orders(preBids) : \A k \in 1..Len(fills) :
              (o.FOK /\ fills[k].bid = o.Id)
                  => (fills[k].size = o.Size /\ o.Id \notin RestingIds(Bids))
        /\ \A o \in Orders(preAsks) : \A k \in 1..Len(fills) :
              (o.FOK /\ fills[k].ask = o.Id)
                  => (fills[k].size = o.Size /\ o.Id \notin RestingIds(Asks))

\* C4: a pass over a book that holds only an FOK buy (P, N) and an FOK sell
\* (P, N) prints one fill of quantity N and leaves neither order resting.
C4_FOKPair ==
    \A p \in Prices, n \in Sizes :
        (lastOp = "match" /\ OnlyOrder(preBids, p, n, 4) /\ OnlyOrder(preAsks, p, n, 4))
            => /\ Bids = EmptyMap
               /\ Asks = EmptyMap
               /\ Len(fills) = 1
               /\ fills[1].size = n

\* C5: every resting order has size > 0, and after a completed pass every
\* resting order has remaining size > 0, its remaining size being its size
\* less the quantity of the fills the pass printed for it: an order filled
\* down to 0 is not left in the book.
C5_RestingPositive ==
    /\ \A o \in Orders(Bids) \cup Orders(Asks) : o.Size > 0
    /\ (lastOp = "match" /\ ~panicked) =>
           \A o \in Orders(Bids) \cup Orders(Asks) : o.Size - FilledBy(fills, o.Id) > 0

\* The threads inside a section that ob.mu guards.
InCritical == {t \in Threads : pc[t] \in {"add_id", "add_insert", "stop_drain"}}

\* C6: at most one of the callers of AddOrder and StopMatching and the
\* matching goroutine is between ob.mu.Lock() and ob.mu.Unlock().
C6_MutualExclusion ==
    Cardinality(InCritical) + (IF matcher = "pass" THEN 1 ELSE 0) <= 1

C6_Witness ==
    \E t \in Threads, u \in Threads :
        /\ pc[t] = "add_insert"
        /\ pc[u] = "stop_lock"
        /\ matcher = "lock"

\* C7: a match pass ends without a runtime panic.
C7_PassNeverPanics == lastOp = "match" => ~panicked

\* C8: the second of two completed passes with no other operation between
\* them prints no fill and leaves Bids and Asks as the first pass left them.
C8_Idempotent ==
    (lastOp = "match" /\ ~panicked /\ passes = 2)
        => (fills = <<>> /\ Bids = preBids /\ Asks = preAsks)

\* C9: after a completed pass no bid level has a price >= the price of an
\* ask level; stated for the books whose resting orders are all market or
\* GTC orders.
C9_NotCrossed ==
    (/\ lastOp = "match"
     /\ ~panicked
     /\ \A o \in Orders(Bids) \cup Orders(Asks) : o.OrderType \in {1, 3})
        => \A bp \in DOMAIN Bids, ap \in DOMAIN Asks : bp < ap

\* C10: the ids AddOrder assigns are given in the order the calls acquired
\* ob.mu and strictly increase in that order, so no id is assigned twice; the
\* resting orders have pairwise distinct ids.
C10_IdMonotonic ==
    /\ \A x, y \in 1..Len(acq) :
          (x < y /\ acq[y].id # -1) => (acq[x].id # -1 /\ acq[x].id < acq[y].id)
    /\ \A m \in {Bids, Asks} : \A p \in DOMAIN m : \A x, y \in 1..Len(m[p]) :
          x # y => m[p][x].Id # m[p][y].Id
    /\ RestingIds(Bids) \cap RestingIds(Asks) = {}

C10_Witness ==
    /\ Len(acq) >= 2
    /\ acq[1].t # acq[2].t
    /\ acq[1].id = 0
    /\ acq[2].id = 1

IsGTCOrder(o) == o.OrderType = 3

\* The side after is the side before with every order that is no GTC order
\* taken out: the GTC orders of each level stay at their price, unchanged and
\* in their order.
GTCKept(before, after) ==
    /\ DOMAIN after \subseteq DOMAIN before
    /\ \A p \in DOMAIN before : MapGet(after, p) = SelectSeq(before[p], IsGTCOrder)

\* C11: when the locked section of StopMatching completes, no order of a
\* kind other than GTC rests in either side, and every GTC order that was
\* resting is still resting at its price with its id and size, in the same
\* relative order within its level.
C11_ShutdownDrain ==
    [][lastOp' = "stop" =>
          /\ \A o \in Orders(Bids') \cup Orders(Asks') : IsGTCOrder(o)
          /\ GTCKept(Bids, Bids')
          /\ GTCKept(Asks, Asks')]_vars

C11_Witness ==
    /\ lastOp = "stop"
    /\ nextOrderID = 3
    /\ Asks = EmptyMap
    /\ DOMAIN Bids = {1}
    /\ Len(Bids[1]) = 2
    /\ Bids[1][1].Id = 0
    /\ Bids[1][2].Id = 2

\* The book holds one GTC buy and one GTC sell and nothing else, the buy at a
\* price below the sell's.
GTCApart ==
    \E p1 \in Prices, p2 \in Prices, n1 \in Sizes, n2 \in Sizes :
        /\ p1 < p2
        /\ OnlyOrder(Bids, p1, n1, 3)
        /\ OnlyOrder(Asks, p2, n2, 3)

\* C12: a GTC buy at p1 and a GTC sell at p2 > p1, alone in the book, are
\* never filled against each other by a MatchOrders pass, however many run,
\* and both are still resting, unchanged, after StopMatching: every step of
\* MatchOrders or StopMatching from such a book prints no fill and leaves
\* both sides as they were.
C12_NonCrossing ==
    [][(GTCApart /\ lastOp' \in {"match", "stop"} /\ matcher' = matcher) =>
          /\ fills' = <<>>
          /\ Bids' = Bids
          /\ Asks' = Asks]_vars

C12_Witness ==
    /\ GTCApart
    /\ lastOp = "stop"
    /\ stopClosed
    /\ nextOrderID = 2

\* C13: a second call of StopMatching on the same book returns without a
\* runtime panic: no call of StopMatching that found ob.stopChan closed has
\* ended the process.
C13_SecondStop == (stopClosed /\ lastOp = "close") => ~panicked

\* A call of StopMatching has returned.
StopReturned == stopClosed /\ \A t \in Threads : pc[t] \notin {"stop_lock", "stop_drain"}

\* C14: once StopMatching has returned, the goroutine of startMatching
\* begins no further MatchOrders pass: its select does not take the ticker
\* case again.
C14_NoPassAfterStop ==
    [][StopReturned => ~(matcher = "select" /\ matcher' = "lock")]_vars

\* C15: every fill of volume v reduces the size stored in the book for both
\* legs by v. After a completed pass the fills printed for an order do not
\* exceed the size it had before the pass, and an order still resting has
\* that size less the quantity of its fills.
C15_FillsReduceSize ==
    (lastOp = "match" /\ ~panicked) =>
        /\ \A q \in Orders(preBids) \cup Orders(preAsks) : FilledBy(fills, q.Id) <= q.Size
        /\ \A o \in Orders(Bids) \cup Orders(Asks) :
              \E q \in Orders(preBids) \cup Orders(preAsks) :
                  /\ q.Id = o.Id
                  /\ o.Size = q.Size - FilledBy(fills, o.Id)

\* C16: a completed pass removes an order that is no FOK order only if the
\* fills of the pass took its whole size; an order with no fill in the pass
\* is still resting after it, and the order removed after a fill is the
\* order that was filled.
C16_RemovesOnlyFilled ==
    (lastOp = "match" /\ ~panicked) =>
        \A q \in Orders(preBids) \cup Orders(preAsks) :
            (~q.FOK /\ q.Id \notin RestingIds(Bids) \cup RestingIds(Asks))
                => FilledBy(fills, q.Id) >= q.Size

\* C17: a read of the levels of Bids and Asks is taken under ob.mu: while a
\* thread is between its read of ob.Bids and its read of ob.Asks, neither the
\* matching goroutine nor another caller holds the lock.
C17_ReadsLocked ==
    \A t \in Threads : pc[t] = "read_asks" => mu \notin (Threads \ {t}) \cup {"m"}

\* C18: the orders inside each price level of Bids and of Asks are in
\* ascending order of id, the order in which their AddOrder calls acquired
\* ob.mu, also when submissions receive equal timestamps.
C18_LevelOrder ==
    \A m \in {Bids, Asks} : \A p \in DOMAIN m : \A x, y \in 1..Len(m[p]) :
        x < y => m[p][x].Id < m[p][y].Id

C18_Witness ==
    \E m \in {Bids, Asks} : \E p \in DOMAIN m :
        /\ Len(m[p]) = 2
        /\ m[p][1].Timestamp = m[p][2].Timestamp
        /\ Len(acq) = 2
        /\ acq[1].t # acq[2].t

\* C19: AddOrder with a side other than "buy" or "sell" changes nothing: a
\* call of AddOrder that leaves Bids and Asks as they were also leaves the
\* order-id counter as it was.
C19_RejectKeepsCounter ==
    [][(lastOp' = "add" /\ Bids' = Bids /\ Asks' = Asks) => nextOrderID' = nextOrderID]_vars

\* An order a session may pass on to a book.
ValidOrder(o) ==
    /\ o.Side \in {"buy", "sell"}
    /\ o.OrderType \in {1, 2, 3, 4}
    /\ o.Price > 0
    /\ o.Size > 0

\* C20: a TRADE command with a side that is not buy/sell, an unrecognized
\* kind, or a price or size that is not positive or not a number is
\* rejected: every order resting in the book, or resting at the start of the
\* last pass and so open to its fills, has a valid side, kind, price and size.
C20_BoundaryRejects ==
    \A o \in Orders(Bids) \cup Orders(Asks) \cup Orders(preBids) \cup Orders(preAsks) :
        ValidOrder(o)

\* C21: under fair scheduling every AddOrder call, made through Server.trade
\* while s.mu is held, acquires the book and returns, whatever match passes
\* it is interleaved with: a handler waiting for s.mu or for ob.mu is in the
\* end back from Server.trade.
C21_AddReturns ==
    \A t \in Threads : (pc[t] \in {"trade_lock", "add_lock"}) ~> (pc[t] = "idle")

\* C22: every price level present as a key in Bids or Asks holds at least
\* one order.
C22_NoEmptyLevel ==
    \A m \in {Bids, Asks} : \A p \in DOMAIN m : Len(m[p]) >= 1

C22_Witness ==
    /\ lastOp = "match"
    /\ ~panicked
    /\ \E p \in DOMAIN preBids : p \notin DOMAIN Bids
    /\ DOMAIN Bids # {}

====
